---- MODULE Spec2Model ----
(***************************************************************************)
(* Trace conclusion checker of ElasticDash-Logger.                         *)
(*                                                                         *)
(* TraceConclusionRunner (a PeriodicRunner) drives one cycle of            *)
(* TraceConclusionService.checkAndProcessConcludedTraces per interval:     *)
(* findConcludedTraces issues one ClickHouse query, processConcludedTraces *)
(* POSTs every returned trace id to /api/features/analyze, one at a time.  *)
(*                                                                         *)
(* Atomicity follows the JavaScript event loop: a step of the model is the *)
(* code that runs between two awaited outbound calls.  Time is discrete   *)
(* and relative: the pending tick holds its remaining delay, and clocks    *)
(* count the units since an event, up to ClockCap.  Time may pass while an *)
(* outbound call is awaited, so a cycle may take any amount of time, in    *)
(* particular longer than the interval.                                    *)
(*                                                                         *)
(* PeriodicRunner (worker/src/utils/PeriodicRunner.ts) is not part of the  *)
(* available sources; start, stop, tick and Complete follow section 4.1    *)
(* of the specification.  The logger is total (it never raises).           *)
(***************************************************************************)
EXTENDS Integers, Sequences, FiniteSets, TLC

\* ---------------------------------------------------------------- bounds
intervalMs == 2        \* the runner's interval, in clock units
MaxCycles  == 2        \* invocations started in one behaviour
MaxRows    == 3        \* rows one query returns
BatchCap   == 2        \* the query's LIMIT, scaled down from 1000
MaxFleetCycles == 2    \* cycles begun by the workers of the fleet together
MaxActivity    == 1    \* observations written while the fleet runs
MaxAge         == 240  \* seconds a trace is followed after its last update
MaxCalls       == 4    \* calls of getMediaStorageServiceClient
MaxRuns        == 2    \* runs of initialize.ts against one database

DefaultIntervalSeconds == 60   \* constructor(intervalMs = 60_000)
ClockStep == 20                \* seconds per step of the latency clock

INACTIVITY_THRESHOLD_SECONDS == 60

ClockCap == intervalMs + 1   \* clocks stop counting here

TraceIds == {"t1", "t2", "t3"}
NoTimer  == -1
NoTime   == -1
NoResult == -1

\* outcomes of axios.post: a 2xx response, a non-2xx response, no response
PostOutcomes == {"2xx", "non2xx", "transport"}
\* an error raised outside every try block of the cycle body: in
\* processConcludedTraces after the loop, or in execute after the await
Faults == {"none", "process", "execute"}

VARIABLES
  running,        \* PeriodicRunner: start() was called and stop() was not
  timer,          \* PeriodicRunner: delay left of the pending tick, or NoTimer
  executing,      \* PeriodicRunner: an invocation of execute() has not settled
  pc,             \* the cycle: "idle", "query", "post", "done"
  queryOutcome,   \* how this cycle's ClickHouse query ended
  traceIds,       \* what findConcludedTraces returned
  idx,            \* position in traceIds of the POST that is awaited
  successCount,
  failureCount,
  posts,          \* the axios.post calls of this cycle, with their outcomes
  logs,           \* the log entries of this cycle
  result,         \* what checkAndProcessConcludedTraces returned
  checkOutcome,   \* "pending", "returned" or "rejected"
  execOutcome,    \* execute(): "pending", "resolved" or "rejected"
  queries,        \* ClickHouse queries sent in this cycle
  outbound,       \* outbound calls of this cycle that have not settled
  started,        \* invocations begun
  finished,       \* invocations whose cycle body has ended
  elapsed,        \* clock: since the invocation in flight began
  sinceEnd,       \* clock: since the last invocation settled, while none
                  \* is in flight; NoTime otherwise
  sinceStart,     \* clock: since start() took effect, while fresh
  fresh,          \* start() took effect with no invocation in flight and
                  \* no invocation has begun since
  beganFresh,     \* the invocation whose query is awaited began while fresh
  lastExec,       \* execOutcome of the invocation before the one whose
                  \* query is awaited, or of the last one when idle
  lastSlow,       \* that invocation took longer than the interval
  stopEarly,      \* stop() was called during the invocation in flight
                  \* before any of its POSTs had settled
  tickDropped,    \* a tick was skipped during the invocation in flight
  store,          \* ClickHouse: the traces and observations tables, or
                  \* NoStore where the rows of a query are drawn freely
  fleet,          \* per worker process: the cycle of its service
  lastFailed,     \* per worker: the ids whose POST failed in its latest
                  \* cycle and that got no marker and no observation since
  due,            \* per worker: lastFailed as its query in flight found it
  overflow,       \* per worker: that query selected more than BatchCap ids
  begun,          \* cycles begun by the fleet
  activity,       \* observations written while the fleet runs
  touched,        \* per worker: the candidates of its list whose POST
                  \* is yet to be sent and that got an observation
                  \* since its query returned
  sent,           \* latency: a POST for the followed trace has been sent
  delayed,        \* latency: time passed during a cycle, or a query
                  \* rejected, since the trace's last update
  s3StorageServiceClient,  \* the module variable, NoClient while unset
  getInstanceCalls,        \* calls of StorageServiceFactory.getInstance
  returned,       \* what each call of getMediaStorageServiceClient
                  \* returned, in the order of the calls
  handler,        \* /api/features/analyze: per invocation, where it is
  metadata,       \* per trace: the feature_id of its metadata, "" if none
  processed,      \* per trace: how many times it has been processed
  env,            \* initialize.ts: the ELASTICDASH_INIT_* variables, "" if unset
  db,             \* Postgres: the tables initialize.ts reads and writes
  initPc,         \* the awaited call of the module body, "idle" or "done"
  org,            \* `org`: the id of the row organization.upsert returned
  existingApiKey, \* `existingApiKey`, as a set of at most one row
  userId,         \* `userId`, 0 while undefined
  warnings,       \* what this run passed to logger.warn
  calls,          \* the database calls of this run, in order
  runs,           \* runs of the module body that have ended
  before,         \* db as it was when this run began
  afterFirst,     \* db as it was when the first run ended
  closed          \* ingestion: no further trace will become eligible

schedVars == <<running, timer, executing>>
cycleVars == <<pc, queryOutcome, traceIds, idx, successCount, failureCount,
               posts, logs, result, checkOutcome, execOutcome, queries,
               outbound>>
histVars  == <<started, finished, elapsed, sinceEnd, sinceStart, fresh,
               beganFresh, lastExec, lastSlow, stopEarly, tickDropped>>
fleetVars == <<fleet, lastFailed, due, overflow, begun, activity, touched>>
storeVars == <<store, fleetVars>>
latencyVars == <<sent, delayed>>
singletonVars == <<s3StorageServiceClient, getInstanceCalls, returned>>
handlerVars == <<handler, metadata, processed>>
provisionVars == <<env, db, initPc, org, existingApiKey, userId, warnings,
                   calls, runs, before, afterFirst>>
ingestVars == <<closed>>
otherVars == <<singletonVars, handlerVars, provisionVars, ingestVars>>
extraVars == <<latencyVars, otherVars>>
vars == <<schedVars, cycleVars, histVars, storeVars, extraVars>>

\* ------------------------------------------------------------- helpers
Min(a, b) == IF a < b THEN a ELSE b

Count(s, e) == Cardinality({i \in 1..Len(s) : s[i] = e})

Injective(s) == \A i, j \in 1..Len(s) : s[i] = s[j] => i = j

\* the rows a successful query may return: SELECT DISTINCT t.id ... LIMIT
RowLists ==
  {r \in UNION {[1..n -> [trace_id : TraceIds]] : n \in 0..MaxRows} :
     Injective(r)}

\* ----------------------------------------------------- ClickHouse
\* Timestamps are kept as ages, now() minus the timestamp, in seconds; the
\* ages on and around the threshold are the ones told apart by the query.
Ages == {0, INACTIVITY_THRESHOLD_SECONDS, INACTIVITY_THRESHOLD_SECONDS + 1}

\* no table is modelled: a store over no trace id
NoStore == [t \in {} |-> {}]

\* one trace id in the store: whether the traces table has its row, the
\* row's timestamp and whether its metadata has the key feature_id, and
\* the updated_at of each of its rows in the observations table
TraceStates ==
  {tr \in [inTraces : BOOLEAN, timestamp : Ages \ {0}, feature_id : BOOLEAN,
           updated_at : SUBSET Ages] :
     /\ Cardinality(tr.updated_at) <= 2
     /\ ~tr.inTraces =>
          (tr.timestamp = INACTIVITY_THRESHOLD_SECONDS + 1 /\ ~tr.feature_id)}

Stores == [TraceIds -> TraceStates]

\* the text of the query for a value of the field
\* INACTIVITY_THRESHOLD_SECONDS: the template interpolates the field into
\* both INTERVAL clauses, and LIMIT is the literal 1000
queryTextMixedWindows(seconds) ==
  [updated_at_interval |-> seconds, timestamp_interval |-> 30, limit |-> 1000]

queryText(seconds) ==
  [updated_at_interval |-> seconds, timestamp_interval |-> seconds,
   limit |-> 1000]

\* const query
query == queryText(INACTIVITY_THRESHOLD_SECONDS)

\* x < now() - INTERVAL seconds SECOND, for a timestamp x of the given age
olderThan(age, seconds) == age > seconds

\* x < now() - INTERVAL 60 SECOND, for a timestamp x of the given age
olderThanThreshold(age) == olderThan(age, INACTIVITY_THRESHOLD_SECONDS)

\* the CTE: the WHERE clause filters the rows of observations, then GROUP
\* BY trace_id aggregates the rows that are left; max(updated_at) is the
\* smallest age
trace_latest_updates(st) ==
  {[trace_id |-> t,
    last_updated |->
      CHOOSE a \in {u \in st[t].updated_at :
                      olderThan(u, query.updated_at_interval)} :
        \A b \in {u \in st[t].updated_at :
                    olderThan(u, query.updated_at_interval)} : a <= b] :
   t \in {x \in TraceIds :
           \E u \in st[x].updated_at :
             olderThan(u, query.updated_at_interval)}}

\* WHERE NOT has(mapKeys(t.metadata), 'feature_id')
notProcessedAlways(tr) == TRUE

notProcessed(tr) == ~tr.feature_id

\* SELECT DISTINCT t.id FROM traces t INNER JOIN trace_latest_updates tlu
\* ON t.id = tlu.trace_id WHERE ... AND t.timestamp < now() - INTERVAL
selectDistinct(st) ==
  {t \in TraceIds :
     /\ st[t].inTraces
     /\ \E tlu \in trace_latest_updates(st) : tlu.trace_id = t
     /\ notProcessed(st[t])
     /\ olderThan(st[t].timestamp, query.timestamp_interval)}

\* LIMIT: how many of n rows are returned
limitNone(n) == n

limitOne(n) == Min(n, 1)

limit(n) == Min(n, BatchCap)

\* the rows of a query that succeeds on the store: the selected ids, in any
\* order, cut at the LIMIT
queryClickhouse(st) ==
  LET selected == selectDistinct(st)
  IN  {rows \in [1..limit(Cardinality(selected)) -> [trace_id : selected]] :
         Injective(rows)}

\* the tables after the query has returned the given rows: the statement
\* is a SELECT and writes nothing
afterSelectMarks(st, rows) ==
  [t \in DOMAIN st |->
     IF \E i \in 1..Len(rows) : rows[i].trace_id = t
       THEN [st[t] EXCEPT !.feature_id = TRUE]
       ELSE st[t]]

afterSelect(st, rows) == st

\* the analyze endpoint, for a request that is answered 2xx: the handler
\* returns early when the trace has feature_id and sets it otherwise
analyzeHandlerForgets(tr) == tr

analyzeHandler(tr) == [tr EXCEPT !.feature_id = TRUE]

\* ------------------------------------------- TraceConclusionService
\* findConcludedTraces, after the awaited query has settled: the ids of the
\* rows, or the empty list when the query rejected.  threw: an error leaves
\* the method.
findConcludedTracesPropagates(qo, rows) ==
  IF qo = "reject"
    THEN [threw |-> TRUE, ids |-> <<>>, log |-> <<>>]
    ELSE [threw |-> FALSE,
          ids   |-> [i \in 1..Len(rows) |-> rows[i].trace_id],
          log   |-> IF Len(rows) > 0 THEN <<"find.found">> ELSE <<>>]

findConcludedTraces(qo, rows) ==
  IF qo = "reject"
    THEN [threw |-> FALSE, ids |-> <<>>, log |-> <<"find.error">>]
    ELSE [threw |-> FALSE,
          ids   |-> [i \in 1..Len(rows) |-> rows[i].trace_id],
          log   |-> IF Len(rows) > 0 THEN <<"find.found">> ELSE <<>>]

\* notifyTraceConcluded, after the awaited axios.post has settled: axios
\* rejects on a non-2xx response and on a transport error; the catch block
\* logs the error and does not rethrow, so the call resolves either way.
notifyTraceConcludedRethrows(o) ==
  [threw |-> o # "2xx",
   log   |-> IF o = "2xx" THEN <<>> ELSE <<"notify.error">>]

notifyTraceConcluded(o) ==
  [threw |-> FALSE,
   log   |-> IF o = "2xx" THEN <<>> ELSE <<"notify.error">>]

\* processConcludedTraces: the guard of the early return
emptyShortCircuitNever(ids) == FALSE

emptyShortCircuit(ids) == Len(ids) = 0

\* processConcludedTraces: the for-of loop has another element after the
\* i-th of k; neither branch of the try statement leaves the loop
hasNextSkipsLast(i, k) == i < k - 1

hasNext(i, k) == i < k

\* processConcludedTraces: `for (const traceId of traceIds)`, the
\* candidate of the i-th pass
candidateReversed(ids, i) == ids[Len(ids) + 1 - i]

candidate(ids, i) == ids[i]

\* processConcludedTraces: successCount and failureCount are locals that
\* start at 0 in every call, whatever the call before left in them
freshCounterCarried(c) == c

freshCounter(c) == 0

\* processConcludedTraces: the POSTs sent when k candidates remain; the
\* loop awaits each call before it sends the next
dispatchedAll(k) == k

dispatched(k) == 1

\* processConcludedTraces: one pass of the loop body around the await
loopBodyCountsBoth(n, sc, fc, id) ==
  [sc |-> sc + 1, fc |-> fc + 1,
   log |-> IF n.threw THEN <<"proc.fail">> ELSE <<"proc.ok">>]

loopBodyForgets(n, sc, fc, id) ==
  IF n.threw
    THEN [sc |-> sc, fc |-> fc + 1, log |-> <<"proc.fail">>]
    ELSE [sc |-> sc, fc |-> fc, log |-> <<"proc.ok">>]

loopBody(n, sc, fc, id) ==
  IF n.threw
    THEN [sc |-> sc, fc |-> fc + 1, log |-> <<"proc.fail">>]
    ELSE [sc |-> sc + 1, fc |-> fc, log |-> <<"proc.ok">>]

\* processConcludedTraces: the summary log and the return after the loop
afterLoopReturnsFailures(sc, fc, fault) ==
  IF fault = "process"
    THEN [threw |-> TRUE, value |-> 0, log |-> <<>>]
    ELSE [threw |-> FALSE, value |-> fc, log |-> <<"proc.summary">>]

afterLoop(sc, fc, fault) ==
  IF fault = "process"
    THEN [threw |-> TRUE, value |-> 0, log |-> <<>>]
    ELSE [threw |-> FALSE, value |-> sc, log |-> <<"proc.summary">>]

\* checkAndProcessConcludedTraces: the try/catch around both collaborators
checkAndProcessRethrows(findThrew, procThrew, value) ==
  IF findThrew \/ procThrew
    THEN [status |-> "rejected", value |-> NoResult, log |-> <<"check.error">>]
    ELSE [status |-> "returned", value |-> value, log |-> <<>>]

checkAndProcessConcludedTraces(findThrew, procThrew, value) ==
  IF findThrew \/ procThrew
    THEN [status |-> "returned", value |-> 0, log |-> <<"check.error">>]
    ELSE [status |-> "returned", value |-> value, log |-> <<>>]

\* ------------------------------------------- TraceConclusionRunner
\* execute, after the awaited checkAndProcessConcludedTraces has settled
executeAlwaysProcessed(chk, fault) ==
  IF chk.status = "rejected" \/ fault = "execute"
    THEN [outcome |-> "rejected", log |-> <<>>]
    ELSE [outcome |-> "resolved",
          log |-> IF chk.value >= 0 THEN <<"run.processed">>
                                    ELSE <<"run.none">>]

execute(chk, fault) ==
  IF chk.status = "rejected" \/ fault = "execute"
    THEN [outcome |-> "rejected", log |-> <<>>]
    ELSE [outcome |-> "resolved",
          log |-> IF chk.value > 0 THEN <<"run.processed">>
                                   ELSE <<"run.none">>]

\* the defaultIntervalMs getter: the interval given to the constructor
defaultIntervalMsZero(ms) == 0

defaultIntervalMsDouble(ms) == 2 * ms

defaultIntervalMs(ms) == ms

\* execute settles only when the awaited cycle body has ended
executeSettledNoAwait(p) == TRUE

executeSettled(p) == p = "done"

\* ------------------------------------------- PeriodicRunner
\* start(): the first tick fires without waiting
firstDelayFull(T) == T

firstDelay(T) == 0

\* stop(): the pending tick is cancelled
stopTimerKeeps(t) == t

stopTimer(t) == NoTimer

\* a tick begins an invocation only when none is in flight
tickMayBeginAlways(exec) == TRUE

tickMayBegin(exec) == ~exec

\* after an invocation settled: the next tick, one interval later,
\* whatever the outcome
nextTimerOnSuccessOnly(run, outcome, T) ==
  IF run /\ outcome = "resolved" THEN T ELSE NoTimer

nextTimer(run, outcome, T) == IF run THEN T ELSE NoTimer

\* ---------------------------------------------------------------- Init
IdleCycle ==
  /\ pc = "idle"
  /\ queryOutcome = "none"
  /\ traceIds = <<>>
  /\ idx = 0
  /\ successCount = 0
  /\ failureCount = 0
  /\ posts = <<>>
  /\ logs = <<>>
  /\ result = NoResult
  /\ checkOutcome = "pending"
  /\ execOutcome = "pending"
  /\ queries = 0
  /\ outbound = 0

RunnerIdle ==
  /\ running = FALSE
  /\ timer = NoTimer
  /\ executing = FALSE
  /\ IdleCycle
  /\ started = 0
  /\ finished = 0
  /\ elapsed = 0
  /\ sinceEnd = NoTime
  /\ sinceStart = 0
  /\ fresh = FALSE
  /\ beganFresh = FALSE
  /\ lastExec = "none"
  /\ lastSlow = FALSE
  /\ stopEarly = FALSE
  /\ tickDropped = FALSE

\* ---------------------------------------------------- worker fleet
Workers == {"w1", "w2"}

\* a service between two cycles
IdleWorker ==
  [pc |-> "idle", queryOutcome |-> "none", traceIds |-> <<>>, idx |-> 0,
   successCount |-> 0, failureCount |-> 0, posts |-> <<>>,
   result |-> NoResult, checkOutcome |-> "pending"]

\* `let s3StorageServiceClient: StorageService;` leaves it undefined
NoClient == [instance |-> 0, bucketName |-> ""]

SingletonIdle ==
  /\ s3StorageServiceClient = NoClient
  /\ getInstanceCalls = 0
  /\ returned = <<>>

\* the requests that reach /api/features/analyze, and the traces they name
Invocations == {"r1", "r2", "r3"}
Analyzed == {"t1", "t2"}

HandlerIdle ==
  /\ handler = [r \in Invocations |-> [pc |-> "idle", traceId |-> ""]]
  /\ metadata = [t \in Analyzed |-> ""]
  /\ processed = [t \in Analyzed |-> 0]

OtherIdle ==
  /\ SingletonIdle
  /\ HandlerIdle
  /\ closed = FALSE

\* the ELASTICDASH_INIT_* variables initialize.ts reads
ORG_ID             == "ELASTICDASH_INIT_ORG_ID"
ORG_NAME           == "ELASTICDASH_INIT_ORG_NAME"
ORG_CLOUD_PLAN     == "ELASTICDASH_INIT_ORG_CLOUD_PLAN"
PROJECT_ID         == "ELASTICDASH_INIT_PROJECT_ID"
PROJECT_NAME       == "ELASTICDASH_INIT_PROJECT_NAME"
PROJECT_RETENTION  == "ELASTICDASH_INIT_PROJECT_RETENTION"
PROJECT_PUBLIC_KEY == "ELASTICDASH_INIT_PROJECT_PUBLIC_KEY"
PROJECT_SECRET_KEY == "ELASTICDASH_INIT_PROJECT_SECRET_KEY"
USER_EMAIL         == "ELASTICDASH_INIT_USER_EMAIL"
USER_NAME          == "ELASTICDASH_INIT_USER_NAME"
USER_PASSWORD      == "ELASTICDASH_INIT_USER_PASSWORD"

\* the variables the warning of lines 10-38 can name, and all of them
IgnoredVars == {ORG_NAME, ORG_CLOUD_PLAN, PROJECT_ID, PROJECT_NAME,
                PROJECT_RETENTION, PROJECT_PUBLIC_KEY, PROJECT_SECRET_KEY,
                USER_EMAIL, USER_NAME, USER_PASSWORD}
InitVars == {ORG_ID} \cup IgnoredVars

NoDb == [organization |-> {}, project |-> {}, apiKey |-> {}, user |-> {},
         organizationMembership |-> {}]

\* no run of initialize.ts has begun
ProvisionLocalsIdle ==
  /\ initPc = "idle"
  /\ org = ""
  /\ existingApiKey = {}
  /\ userId = 0
  /\ warnings = {}
  /\ calls = <<>>
  /\ runs = 0
  /\ afterFirst = NoDb

ProvisionIdle ==
  /\ env = [v \in InitVars |-> ""]
  /\ db = NoDb
  /\ before = NoDb
  /\ ProvisionLocalsIdle

ExtraIdle ==
  /\ sent = FALSE
  /\ delayed = FALSE
  /\ OtherIdle
  /\ ProvisionIdle

WorkersIdle ==
  /\ fleet = [k \in Workers |-> IdleWorker]
  /\ lastFailed = [k \in Workers |-> {}]
  /\ due = [k \in Workers |-> {}]
  /\ overflow = [k \in Workers |-> FALSE]
  /\ begun = 0
  /\ activity = 0
  /\ touched = [k \in Workers |-> {}]

FleetIdle ==
  /\ ExtraIdle
  /\ WorkersIdle

Init ==
  /\ RunnerIdle
  /\ FleetIdle
  /\ store = NoStore

\* ------------------------------------------------------------- actions
\* one unit of time passes, unless a tick is due or a continuation is ready
Advance ==
  /\ UNCHANGED <<storeVars, extraVars>>
  /\ pc # "done"
  /\ timer = NoTimer \/ timer > 0
  /\ timer' = IF timer = NoTimer THEN NoTimer ELSE timer - 1
  /\ elapsed' = IF executing THEN Min(elapsed + 1, ClockCap) ELSE elapsed
  /\ sinceEnd' = IF sinceEnd = NoTime THEN NoTime
                                      ELSE Min(sinceEnd + 1, ClockCap)
  /\ sinceStart' = IF fresh THEN Min(sinceStart + 1, ClockCap) ELSE sinceStart
  /\ UNCHANGED <<running, executing, cycleVars, started, finished, fresh,
                 beganFresh, lastExec, lastSlow, stopEarly, tickDropped>>

\* PeriodicRunner.start()
start ==
  /\ UNCHANGED <<storeVars, extraVars>>
  /\ pc # "done"
  /\ ~running
  /\ running' = TRUE
  /\ timer' = firstDelay(intervalMs)
  /\ sinceStart' = 0
  /\ fresh' = ~executing
  /\ UNCHANGED <<executing, cycleVars, started, finished, elapsed, sinceEnd,
                 beganFresh, lastExec, lastSlow, stopEarly, tickDropped>>

\* PeriodicRunner.stop()
stop ==
  /\ UNCHANGED <<storeVars, extraVars>>
  /\ pc # "done"
  /\ running
  /\ running' = FALSE
  /\ timer' = stopTimer(timer)
  /\ fresh' = FALSE
  /\ sinceStart' = 0
  /\ stopEarly' = (stopEarly \/ (executing /\ posts = <<>>))
  /\ UNCHANGED <<executing, cycleVars, started, finished, elapsed, sinceEnd,
                 beganFresh, lastExec, lastSlow, tickDropped>>

\* the timer callback: skipped while an invocation is in flight, else
\* execute() runs up to its awaited ClickHouse query
tick ==
  /\ UNCHANGED <<storeVars, extraVars>>
  /\ pc # "done"
  /\ timer = 0
  /\ timer' = NoTimer
  /\ IF tickMayBegin(executing)
       THEN /\ started < MaxCycles
            /\ executing' = TRUE
            /\ started' = started + 1
            /\ pc' = "query"
            /\ queryOutcome' = "none"
            /\ traceIds' = <<>>
            /\ idx' = 0
            /\ successCount' = 0
            /\ failureCount' = 0
            /\ posts' = <<>>
            /\ logs' = <<"run.start">>
            /\ result' = NoResult
            /\ checkOutcome' = "pending"
            /\ execOutcome' = "pending"
            /\ queries' = 1
            /\ outbound' = 1
            /\ elapsed' = 0
            /\ fresh' = FALSE
            /\ sinceStart' = 0
            /\ beganFresh' = fresh
            /\ stopEarly' = FALSE
            /\ tickDropped' = FALSE
            /\ sinceEnd' = NoTime
            /\ UNCHANGED <<running, finished, lastExec, lastSlow>>
       ELSE /\ tickDropped' = TRUE
            /\ UNCHANGED <<running, executing, cycleVars, started, finished,
                           elapsed, sinceEnd, sinceStart, fresh, beganFresh,
                           lastExec, lastSlow, stopEarly>>

\* the rest of the cycle body once processConcludedTraces has returned or
\* raised: the catch of checkAndProcessConcludedTraces, the tail of execute
EndCycle(lg, findThrew, proc, fault) ==
  LET chk == checkAndProcessConcludedTraces(findThrew, proc.threw, proc.value)
      ex  == execute(chk, fault)
  IN /\ logs' = lg \o proc.log \o chk.log \o ex.log
     /\ result' = chk.value
     /\ checkOutcome' = chk.status
     /\ execOutcome' = ex.outcome
     /\ pc' = "done"
     /\ outbound' = outbound - 1
     /\ finished' = finished + 1

\* the ClickHouse query settles: findConcludedTraces returns, and
\* processConcludedTraces runs up to its first awaited POST
QueryReturn ==
  /\ UNCHANGED <<storeVars, extraVars>>
  /\ pc = "query"
  /\ \E qo \in {"rows", "reject"}, rows \in RowLists, fault \in Faults :
       LET found == findConcludedTraces(qo, rows)
           ids   == found.ids
           lg    == logs \o found.log
       IN /\ qo = "reject" => rows = <<>>
          /\ queryOutcome' = qo
          /\ traceIds' = ids
          /\ IF found.threw
               THEN /\ fault # "process"
                    /\ EndCycle(lg, TRUE,
                                [threw |-> FALSE, value |-> 0, log |-> <<>>],
                                fault)
                    /\ UNCHANGED <<idx, successCount, failureCount, posts>>
             ELSE IF emptyShortCircuit(ids)
               THEN /\ fault # "process"
                    /\ EndCycle(lg, FALSE,
                                [threw |-> FALSE, value |-> 0, log |-> <<>>],
                                fault)
                    /\ UNCHANGED <<idx, successCount, failureCount, posts>>
             ELSE IF Len(ids) = 0
               THEN /\ EndCycle(lg \o <<"proc.processing">>, FALSE,
                                afterLoop(0, 0, fault), fault)
                    /\ UNCHANGED <<idx, successCount, failureCount, posts>>
             ELSE /\ fault = "none"
                  /\ pc' = "post"
                  /\ idx' = 1
                  /\ outbound' = outbound - 1 + dispatched(Len(ids))
                  /\ logs' = lg \o <<"proc.processing">>
                  /\ UNCHANGED <<successCount, failureCount, posts, result,
                                 checkOutcome, execOutcome, finished>>
  /\ UNCHANGED queries
  /\ beganFresh' = FALSE
  /\ lastExec' = "none"
  /\ lastSlow' = FALSE
  /\ UNCHANGED <<schedVars, started, elapsed, sinceEnd, sinceStart, fresh,
                 stopEarly, tickDropped>>

\* the awaited POST settles: the loop body ends, and either the next POST
\* is sent or the cycle body runs to its end
PostReturn ==
  /\ UNCHANGED <<storeVars, extraVars>>
  /\ pc = "post"
  /\ \E o \in PostOutcomes, fault \in Faults :
       LET id   == candidate(traceIds, idx)
           n    == notifyTraceConcluded(o)
           body == loopBody(n, successCount, failureCount, id)
           lg   == logs \o n.log \o body.log
       IN /\ posts' = Append(posts, [trace_id |-> id, outcome |-> o])
          /\ successCount' = body.sc
          /\ failureCount' = body.fc
          /\ IF hasNext(idx, Len(traceIds))
               THEN /\ fault = "none"
                    /\ idx' = idx + 1
                    /\ outbound' = outbound - 1 +
                                     dispatched(Len(traceIds) - idx)
                    /\ logs' = lg
                    /\ UNCHANGED <<pc, result, checkOutcome, execOutcome,
                                   finished>>
               ELSE /\ EndCycle(lg, FALSE, afterLoop(body.sc, body.fc, fault),
                                fault)
                    /\ UNCHANGED idx
  /\ UNCHANGED <<schedVars, queryOutcome, traceIds, queries, started, elapsed,
                 sinceEnd, sinceStart, fresh, beganFresh, lastExec, lastSlow,
                 stopEarly, tickDropped>>

\* execute() has settled: the runner contains a rejection, and arms the
\* next tick one interval later unless it was stopped
Complete ==
  /\ UNCHANGED <<storeVars, extraVars>>
  /\ executing
  /\ executeSettled(pc)
  /\ executing' = FALSE
  /\ timer' = nextTimer(running, execOutcome, defaultIntervalMs(intervalMs))
  /\ sinceEnd' = 0
  /\ elapsed' = 0
  /\ lastExec' = execOutcome
  /\ lastSlow' = (elapsed > intervalMs)
  /\ beganFresh' = FALSE
  /\ IF pc = "done"
       THEN /\ pc' = "idle"
            /\ queryOutcome' = "none"
            /\ traceIds' = <<>>
            /\ idx' = 0
            /\ successCount' = freshCounter(successCount)
            /\ failureCount' = freshCounter(failureCount)
            /\ posts' = <<>>
            /\ logs' = <<>>
            /\ result' = NoResult
            /\ checkOutcome' = "pending"
            /\ execOutcome' = "pending"
            /\ queries' = 0
            /\ outbound' = 0
       ELSE UNCHANGED cycleVars
  /\ stopEarly' = FALSE
  /\ tickDropped' = FALSE
  /\ UNCHANGED <<running, started, finished, sinceStart, fresh>>

Next ==
  \/ Advance
  \/ start
  \/ stop
  \/ tick
  \/ QueryReturn
  \/ PostReturn
  \/ Complete

Spec == Init /\ [][Next]_vars

\* the same worker where every awaited call settles, every continuation
\* and timer callback that is ready runs, and time goes on; start() and
\* stop() stay the caller's choice
LiveSpec ==
  /\ Init
  /\ [][Next]_vars
  /\ WF_vars(QueryReturn)
  /\ WF_vars(PostReturn)
  /\ WF_vars(Complete)
  /\ WF_vars(tick)
  /\ WF_vars(Advance)

\* ------------------------------------------- the query on a given store
\* findConcludedTraces called once on a store: the awaited query settles,
\* with the rows the store selects or with a rejection
QueryStore ==
  /\ pc = "idle"
  /\ queryOutcome = "none"
  /\ \E qo \in {"rows", "reject"}, rows \in queryClickhouse(store) :
       LET r == findConcludedTraces(qo, rows)
       IN  /\ queryOutcome' = qo
           /\ traceIds' = r.ids
           /\ logs' = r.log
  /\ queries' = 1
  /\ UNCHANGED <<pc, idx, successCount, failureCount, posts, result,
                 checkOutcome, execOutcome, outbound>>
  /\ UNCHANGED <<schedVars, histVars, storeVars, extraVars>>

QueryInit ==
  /\ RunnerIdle
  /\ FleetIdle
  /\ store \in Stores

QueryNext == QueryStore

QuerySpec == QueryInit /\ [][QueryNext]_vars

\* ------------------------------- worker processes on one shared store
\* Each worker runs the cycle of checkAndProcessConcludedTraces against
\* the same tables and the same endpoint; nothing coordinates them.
\* a cycle that has ended is handed back before anything else happens
NoneDone == \A k \in Workers : fleet[k].pc # "done"

FleetOutcomes == {"2xx", "transport"}

\* the end of checkAndProcessConcludedTraces for worker record f
EndFleetCycle(f, findThrew, proc) ==
  LET chk == checkAndProcessConcludedTraces(findThrew, proc.threw, proc.value)
  IN  [f EXCEPT !.pc = "done", !.result = chk.value,
                !.checkOutcome = chk.status]

\* a worker's runner calls execute(): the query is sent
FleetBegin(k) ==
  /\ NoneDone
  /\ fleet[k].pc = "idle"
  /\ begun < MaxFleetCycles
  /\ begun' = begun + 1
  /\ fleet' = [fleet EXCEPT ![k].pc = "query"]
  /\ UNCHANGED <<store, lastFailed, due, overflow, activity, touched>>
  /\ UNCHANGED <<schedVars, cycleVars, histVars, extraVars>>

\* the candidates of a service's list whose POST is yet to be sent
Pending(f) ==
  IF f.pc = "post"
    THEN {f.traceIds[i] : i \in (f.idx + 1)..Len(f.traceIds)}
    ELSE {}

\* a worker's query settles on the store as it is now
FleetQueryReturn(k) ==
  /\ NoneDone
  /\ fleet[k].pc = "query"
  /\ \E qo \in {"rows", "reject"}, rows \in queryClickhouse(store) :
       LET found == findConcludedTraces(qo, rows)
           f     == [fleet[k] EXCEPT !.queryOutcome = qo,
                                     !.traceIds = found.ids]
           none  == [threw |-> FALSE, value |-> 0, log |-> <<>>]
       IN  /\ fleet' = [fleet EXCEPT ![k] =
                 IF found.threw \/ emptyShortCircuit(found.ids)
                   THEN EndFleetCycle(f, found.threw, none)
                 ELSE IF Len(found.ids) = 0
                   THEN EndFleetCycle(f, FALSE, afterLoop(0, 0, "none"))
                 ELSE [f EXCEPT !.pc = "post", !.idx = 1]]
           /\ store' = IF qo = "rows" THEN afterSelect(store, rows)
                                      ELSE store
  /\ due' = [due EXCEPT ![k] = lastFailed[k]]
  /\ lastFailed' = [lastFailed EXCEPT ![k] = {}]
  /\ overflow' = [overflow EXCEPT
                    ![k] = Cardinality(selectDistinct(store)) > BatchCap]
  /\ touched' = [touched EXCEPT ![k] = {}]
  /\ UNCHANGED <<begun, activity>>
  /\ UNCHANGED <<schedVars, cycleVars, histVars, extraVars>>

\* a worker's awaited POST settles; a 2xx answer means the handler ran
FleetPostReturn(k) ==
  /\ NoneDone
  /\ fleet[k].pc = "post"
  /\ \E o \in FleetOutcomes :
       LET cur  == fleet[k]
           id   == cur.traceIds[cur.idx]
           n    == notifyTraceConcluded(o)
           body == loopBody(n, cur.successCount, cur.failureCount, id)
           f    == [cur EXCEPT
                      !.posts = Append(@, [trace_id |-> id, outcome |-> o]),
                      !.successCount = body.sc,
                      !.failureCount = body.fc]
       IN  /\ fleet' = [fleet EXCEPT ![k] =
                 IF hasNext(cur.idx, Len(cur.traceIds))
                   THEN [f EXCEPT !.idx = @ + 1]
                   ELSE EndFleetCycle(f, FALSE,
                                      afterLoop(body.sc, body.fc, "none"))]
           /\ store' = IF o = "2xx"
                         THEN [store EXCEPT ![id] = analyzeHandler(@)]
                         ELSE store
           /\ lastFailed' =
                 [j \in Workers |->
                    IF o = "2xx" THEN lastFailed[j] \ {id}
                    ELSE IF j = k /\ ~store[id].feature_id
                      THEN lastFailed[j] \cup {id}
                    ELSE lastFailed[j]]
  /\ touched' = [touched EXCEPT ![k] = @ \cap Pending(fleet'[k])]
  /\ UNCHANGED <<due, overflow, begun, activity>>
  /\ UNCHANGED <<schedVars, cycleVars, histVars, extraVars>>

\* a worker's execute() settles and its service is idle again
FleetComplete(k) ==
  /\ fleet[k].pc = "done"
  /\ fleet' = [fleet EXCEPT ![k] = IdleWorker]
  /\ due' = [due EXCEPT ![k] = {}]
  /\ overflow' = [overflow EXCEPT ![k] = FALSE]
  /\ touched' = [touched EXCEPT ![k] = {}]
  /\ UNCHANGED <<store, lastFailed, begun, activity>>
  /\ UNCHANGED <<schedVars, cycleVars, histVars, extraVars>>

\* the ingestion path writes a new observation of trace t
Activity(t) ==
  /\ NoneDone
  /\ activity < MaxActivity
  /\ activity' = activity + 1
  /\ store' = [store EXCEPT ![t].updated_at = @ \cup {0}]
  /\ lastFailed' = [j \in Workers |-> lastFailed[j] \ {t}]
  /\ touched' = [k \in Workers |->
                  touched[k] \cup ({t} \cap Pending(fleet[k]))]
  /\ UNCHANGED <<fleet, due, overflow, begun>>
  /\ UNCHANGED <<schedVars, cycleVars, histVars, extraVars>>

\* three traces that each have one old observation; none has the marker
\* yet, or an earlier run has set the one of t3
FleetStores ==
  {[t \in TraceIds |->
      [inTraces |-> TRUE,
       timestamp |-> INACTIVITY_THRESHOLD_SECONDS + 1,
       feature_id |-> (t \in marked),
       updated_at |-> {INACTIVITY_THRESHOLD_SECONDS + 1}]] :
   marked \in {{}, {"t3"}}}

FleetInit ==
  /\ RunnerIdle
  /\ FleetIdle
  /\ store \in FleetStores

FleetNext ==
  \/ \E k \in Workers : FleetBegin(k)
  \/ \E k \in Workers : FleetQueryReturn(k)
  \/ \E k \in Workers : FleetPostReturn(k)
  \/ \E k \in Workers : FleetComplete(k)
  \/ \E t \in TraceIds : Activity(t)

FleetSpec == FleetInit /\ [][FleetNext]_vars

TypeOK ==
  /\ elapsed \in 0..ClockCap
  /\ sinceEnd \in {NoTime} \cup 0..ClockCap
  /\ sinceStart \in 0..ClockCap
  /\ running \in BOOLEAN
  /\ executing \in BOOLEAN
  /\ timer \in {NoTimer} \cup 0..intervalMs
  /\ pc \in {"idle", "query", "post", "done"}
  /\ started \in 0..MaxCycles
  /\ finished \in 0..MaxCycles
  /\ idx \in 0..MaxRows
  /\ successCount \in 0..MaxRows
  /\ failureCount \in 0..MaxRows
  /\ store = NoStore
  /\ FleetIdle

\* ------------------------------------------- latency of one trace
\* One worker with the default interval, and one trace, t1, that got its
\* last observation update at the start; time is counted in seconds, in
\* steps of ClockStep.  The runner has been started and is between two
\* cycles, with any part of the interval left.
Followed == "t1"

LatencyAge == CHOOSE a \in store[Followed].updated_at : TRUE

LatencyInit ==
  /\ running = TRUE
  /\ executing = FALSE
  /\ timer \in {d \in 0..DefaultIntervalSeconds : d % ClockStep = 0}
  /\ IdleCycle
  /\ started = 0
  /\ finished = 0
  /\ elapsed = 0
  /\ sinceEnd = NoTime
  /\ sinceStart = 0
  /\ fresh = FALSE
  /\ beganFresh = FALSE
  /\ lastExec = "none"
  /\ lastSlow = FALSE
  /\ stopEarly = FALSE
  /\ tickDropped = FALSE
  /\ FleetIdle
  /\ store = [t \in TraceIds |->
               [inTraces |-> t = Followed,
                timestamp |-> INACTIVITY_THRESHOLD_SECONDS + 1,
                feature_id |-> FALSE,
                updated_at |-> IF t = Followed THEN {0} ELSE {}]]

\* ClockStep seconds pass, unless a tick is due or a cycle has just ended
LatencyAdvance ==
  /\ pc # "done"
  /\ executing \/ timer > 0
  /\ LatencyAge < MaxAge
  /\ store' = [store EXCEPT ![Followed].updated_at = {LatencyAge + ClockStep}]
  /\ timer' = IF timer > 0 THEN timer - ClockStep ELSE timer
  /\ delayed' = (delayed \/ executing)
  /\ UNCHANGED <<running, executing, cycleVars, histVars, fleetVars, sent>>
  /\ UNCHANGED otherVars

\* the timer fires and execute() sends the query
LatencyTick ==
  /\ timer = 0
  /\ tickMayBegin(executing)
  /\ timer' = NoTimer
  /\ executing' = TRUE
  /\ pc' = "query"
  /\ queries' = 1
  /\ outbound' = 1
  /\ UNCHANGED <<running, queryOutcome, traceIds, idx, successCount,
                 failureCount, posts, logs, result, checkOutcome, execOutcome>>
  /\ UNCHANGED <<histVars, storeVars, extraVars>>

\* the query settles on the store as it is now; the first POST is sent
LatencyQueryReturn ==
  /\ pc = "query"
  /\ \E qo \in {"rows", "reject"}, rows \in queryClickhouse(store) :
       LET found == findConcludedTraces(qo, rows)
       IN  /\ queryOutcome' = qo
           /\ traceIds' = found.ids
           /\ IF emptyShortCircuit(found.ids)
                 THEN /\ pc' = "done"
                      /\ idx' = idx
                      /\ outbound' = outbound - 1
                      /\ result' = 0
                 ELSE /\ pc' = "post"
                      /\ idx' = 1
                      /\ outbound' = outbound - 1 + dispatched(Len(found.ids))
                      /\ result' = result
           /\ sent' = (sent \/ found.ids # <<>>)
           /\ delayed' = (delayed \/ qo = "reject")
  /\ UNCHANGED <<schedVars, successCount, failureCount, posts, logs,
                 checkOutcome, execOutcome, queries>>
  /\ UNCHANGED <<histVars, storeVars, otherVars>>

\* the POST settles; a 2xx answer means the handler has set the marker
LatencyPostReturn ==
  /\ pc = "post"
  /\ \E o \in FleetOutcomes :
       LET id   == traceIds[idx]
           n    == notifyTraceConcluded(o)
           body == loopBody(n, successCount, failureCount, id)
       IN  /\ posts' = Append(posts, [trace_id |-> id, outcome |-> o])
           /\ successCount' = body.sc
           /\ failureCount' = body.fc
           /\ result' = afterLoop(body.sc, body.fc, "none").value
           /\ store' = IF o = "2xx"
                         THEN [store EXCEPT ![id] = analyzeHandler(@)]
                         ELSE store
  /\ pc' = "done"
  /\ outbound' = outbound - 1
  /\ UNCHANGED <<schedVars, queryOutcome, traceIds, idx, logs, checkOutcome,
                 execOutcome, queries>>
  /\ UNCHANGED <<histVars, fleetVars, extraVars>>

\* execute() settles: the next tick is armed one interval later
LatencyComplete ==
  /\ executing
  /\ executeSettled(pc)
  /\ executing' = FALSE
  /\ timer' = nextTimer(running, "resolved",
                        defaultIntervalMs(DefaultIntervalSeconds))
  /\ pc' = "idle"
  /\ queryOutcome' = "none"
  /\ traceIds' = <<>>
  /\ idx' = 0
  /\ successCount' = freshCounter(successCount)
  /\ failureCount' = freshCounter(failureCount)
  /\ posts' = <<>>
  /\ result' = NoResult
  /\ queries' = 0
  /\ outbound' = 0
  /\ UNCHANGED <<running, logs, checkOutcome, execOutcome>>
  /\ UNCHANGED <<histVars, storeVars, extraVars>>

LatencyNext ==
  \/ LatencyAdvance
  \/ LatencyTick
  \/ LatencyQueryReturn
  \/ LatencyPostReturn
  \/ LatencyComplete

LatencySpec == LatencyInit /\ [][LatencyNext]_vars

\* ------------------------------------ one worker on an open store
\* The store holds finitely many ids; a trace that becomes eligible while
\* the worker runs takes the id of one that has the marker, which the
\* query never returns again.
notIngest == <<schedVars, histVars, fleetVars, latencyVars, singletonVars,
               handlerVars, provisionVars>>

\* the scheduler begins a cycle and the query is sent
StarveTick ==
  /\ pc = "idle"
  /\ pc' = "query"
  /\ UNCHANGED <<queryOutcome, traceIds, idx, successCount, failureCount,
                 posts, logs, result, checkOutcome, execOutcome, queries,
                 outbound>>
  /\ UNCHANGED <<store, closed, notIngest>>

\* the query settles on the store as it is now, with any LIMIT of the
\* selected ids in any order; the first POST is sent
StarveQueryReturn(qo) ==
  /\ pc = "query"
  /\ \E rows \in queryClickhouse(store) :
       LET found == findConcludedTraces(qo, rows)
       IN  /\ queryOutcome' = qo
           /\ traceIds' = found.ids
           /\ IF emptyShortCircuit(found.ids)
                THEN pc' = "idle" /\ idx' = 0
                ELSE pc' = "post" /\ idx' = 1
  /\ UNCHANGED <<successCount, failureCount, posts, logs, result,
                 checkOutcome, execOutcome, queries, outbound>>
  /\ UNCHANGED <<store, closed, notIngest>>

\* the POST for trace t settles; a 2xx answer means the handler ran
StarvePostReturn(t, o) ==
  /\ pc = "post"
  /\ candidate(traceIds, idx) = t
  /\ store' = IF o = "2xx" THEN [store EXCEPT ![t] = analyzeHandler(@)]
                           ELSE store
  /\ IF hasNext(idx, Len(traceIds))
       THEN /\ idx' = idx + 1
            /\ UNCHANGED <<pc, traceIds, queryOutcome>>
       ELSE /\ pc' = "idle"
            /\ idx' = 0
            /\ traceIds' = <<>>
            /\ queryOutcome' = "none"
  /\ UNCHANGED <<successCount, failureCount, posts, logs, result,
                 checkOutcome, execOutcome, queries, outbound>>
  /\ UNCHANGED <<closed, notIngest>>

\* a new trace becomes eligible, under an id no POST of the cycle in
\* flight is for
Arrive(t) ==
  /\ ~closed
  /\ store[t].feature_id
  /\ \A i \in 1..Len(traceIds) : traceIds[i] # t
  /\ store' = [store EXCEPT ![t].feature_id = FALSE]
  /\ UNCHANGED <<cycleVars, closed, notIngest>>

\* the last trace has become eligible
Close ==
  /\ ~closed
  /\ closed' = TRUE
  /\ UNCHANGED <<cycleVars, store, notIngest>>

StarveInit ==
  /\ RunnerIdle
  /\ FleetIdle
  /\ store = [t \in TraceIds |->
                [inTraces |-> TRUE,
                 timestamp |-> INACTIVITY_THRESHOLD_SECONDS + 1,
                 feature_id |-> FALSE,
                 updated_at |-> {INACTIVITY_THRESHOLD_SECONDS + 1}]]

StarveNext ==
  \/ StarveTick
  \/ \E qo \in {"rows", "reject"} : StarveQueryReturn(qo)
  \/ \E t \in TraceIds, o \in FleetOutcomes : StarvePostReturn(t, o)
  \/ \E t \in TraceIds : Arrive(t)
  \/ Close

\* cycles are scheduled and their calls settle; the query succeeds in the
\* end, and so does the POST of every trace that keeps being notified
StarveSpec ==
  /\ StarveInit
  /\ [][StarveNext]_vars
  /\ WF_vars(StarveTick)
  /\ WF_vars(\E qo \in {"rows", "reject"} : StarveQueryReturn(qo))
  /\ SF_vars(StarveQueryReturn("rows"))
  /\ WF_vars(\E t \in TraceIds, o \in FleetOutcomes : StarvePostReturn(t, o))
  /\ \A t \in TraceIds : SF_vars(StarvePostReturn(t, "2xx"))

\* ------------------------------------------- media storage client
BucketNames == {"media", "export"}
Callers == {"upload", "download", "delete"}

\* `!s3StorageServiceClient`: the variable holds no object yet
notConstructedAlways(client) == TRUE
notConstructed(client) == client = NoClient

\* StorageServiceFactory.getInstance({ bucketName, ... }): a new client
\* object for that bucket; n tells the objects apart
getInstance(n, bucketName) == [instance |-> n, bucketName |-> bucketName]

\* one call, from the first line of the function to its return: the
\* function has no await, so no other call runs in between
getMediaStorageServiceClient(caller, bucketName) ==
  /\ Len(returned) < MaxCalls
  /\ LET construct == notConstructed(s3StorageServiceClient)
         client == IF construct
                     THEN getInstance(getInstanceCalls + 1, bucketName)
                     ELSE s3StorageServiceClient
     IN  /\ s3StorageServiceClient' = client
         /\ getInstanceCalls' = IF construct THEN getInstanceCalls + 1
                                             ELSE getInstanceCalls
         /\ returned' = Append(returned, [caller |-> caller,
                                          bucketName |-> bucketName,
                                          client |-> client])
  /\ UNCHANGED <<schedVars, cycleVars, histVars, storeVars, latencyVars,
                 handlerVars, provisionVars, ingestVars>>

SingletonNext ==
  \E caller \in Callers, bucketName \in BucketNames :
     getMediaStorageServiceClient(caller, bucketName)

SingletonSpec == Init /\ [][SingletonNext]_vars

\* ------------------------------------- /api/features/analyze handler
\* `if (trace.metadata.feature_id) return;`
alreadyProcessed(feature_id) == feature_id # ""

\* the handler from its first line to `await updateTrace(...)`: the test
\* of feature_id, the processing, and the call of updateTrace, whose write
\* has not reached the trace yet
analyze(r, traceId) ==
  /\ handler[r].pc = "idle"
  /\ IF alreadyProcessed(metadata[traceId])
        THEN /\ handler' = [handler EXCEPT ![r] = [pc |-> "returned",
                                                   traceId |-> traceId]]
             /\ processed' = processed
        ELSE /\ handler' = [handler EXCEPT ![r] = [pc |-> "updateTrace",
                                                   traceId |-> traceId]]
             /\ processed' = [processed EXCEPT ![traceId] = @ + 1]
  /\ metadata' = metadata
  /\ UNCHANGED <<schedVars, cycleVars, histVars, storeVars, latencyVars,
                 singletonVars, provisionVars, ingestVars>>

\* the write of updateTrace reaches the trace and the handler returns;
\* newFeatureId is named after the invocation that produced it
updateTrace(r) ==
  /\ handler[r].pc = "updateTrace"
  /\ metadata' = [metadata EXCEPT ![handler[r].traceId] = r]
  /\ handler' = [handler EXCEPT ![r].pc = "returned"]
  /\ UNCHANGED processed
  /\ UNCHANGED <<schedVars, cycleVars, histVars, storeVars, latencyVars,
                 singletonVars, provisionVars, ingestVars>>

HandlerNext ==
  \/ \E r \in Invocations, traceId \in Analyzed : analyze(r, traceId)
  \/ \E r \in Invocations : updateTrace(r)

HandlerSpec == Init /\ [][HandlerNext]_vars

\* --------------------------------------------------- initialize.ts
\* the value each variable has where it is set
Configured ==
  [v \in InitVars |->
     CASE v = ORG_ID             -> "o1"
       [] v = ORG_NAME           -> "Acme"
       [] v = ORG_CLOUD_PLAN     -> "Team"
       [] v = PROJECT_ID         -> "p1"
       [] v = PROJECT_NAME       -> "Demo"
       [] v = PROJECT_RETENTION  -> "30"
       [] v = PROJECT_PUBLIC_KEY -> "pk-1"
       [] v = PROJECT_SECRET_KEY -> "sk-1"
       [] v = USER_EMAIL         -> "Admin@x.io"
       [] v = USER_NAME          -> "Ada"
       [] v = USER_PASSWORD      -> "pw"]

\* the variables the code branches on are set in every combination; of
\* those that only fill in a created row, none, one or all are set
Branching == {ORG_ID, PROJECT_ID, PROJECT_PUBLIC_KEY, PROJECT_SECRET_KEY,
              USER_EMAIL, USER_PASSWORD}
Filling == InitVars \ Branching
Envs ==
  {[v \in InitVars |-> IF v \in B \cup F THEN Configured[v] ELSE ""] :
     B \in SUBSET Branching,
     F \in {S \in SUBSET Filling : Cardinality(S) <= 1 \/ S = Filling}}

\* rows a database may hold before the first run
OtherOrg == [id |-> "o2", name |-> "Other Org", cloudConfig |-> ""]
OldOrg == [id |-> "o1", name |-> "Old Org", cloudConfig |-> ""]
OtherProject ==
  [id |-> "p2", name |-> "Other Project", orgId |-> "o2",
   retentionDays |-> ""]
OldProject(orgId) ==
  [id |-> "p1", name |-> "Old Project", orgId |-> orgId,
   retentionDays |-> ""]
OldKey(projectId) ==
  [publicKey |-> "pk-1", secretKey |-> "sk-0", projectId |-> projectId,
   note |-> "", scope |-> "PROJECT"]
OldUser ==
  [id |-> 1, email |-> "admin@x.io", name |-> "Admin", password |-> "old"]
OldMembership(role) == [orgId |-> "o1", userId |-> 1, role |-> role]

\* the foreign keys of the schema hold
WellFormed(d) ==
  /\ \A p \in d.project : \E o \in d.organization : o.id = p.orgId
  /\ \A k \in d.apiKey : \E p \in d.project : p.id = k.projectId
  /\ \A m \in d.organizationMembership :
       /\ \E o \in d.organization : o.id = m.orgId
       /\ \E u \in d.user : u.id = m.userId

Dbs ==
  {d \in {[organization |-> {OtherOrg} \cup o,
           project |-> {OtherProject} \cup p,
           apiKey |-> k,
           user |-> u,
           organizationMembership |-> m] :
             o \in {{}, {OldOrg}},
             p \in {{}} \cup {{OldProject(i)} : i \in {"o1", "o2"}},
             k \in {{}} \cup {{OldKey(i)} : i \in {"p1", "p2"}},
             u \in {{}, {OldUser}},
             m \in {{}} \cup {{OldMembership(r)} : r \in {"MEMBER", "OWNER"}}} :
     WellFormed(d)}

\* `env.X` as a condition: a string that is set is truthy
isSet(e, v) == e[v] # ""

\* `if (env.ELASTICDASH_INIT_ORG_ID)`
initEnabledAlways(e) == TRUE
initEnabled(e) == isSet(e, ORG_ID)

\* `[env.X && "X", ...].filter(Boolean)`
setInitVars(e) == {v \in IgnoredVars : isSet(e, v)}

\* `a ?? b`
orDefault(a, b) == IF a = "" THEN b ELSE a

\* String.prototype.toLowerCase, on the addresses of the model
toLowerCase(str) == IF str = "Admin@x.io" THEN "admin@x.io" ELSE str

\* prisma upsert: the rows that match `where` become what `update` makes
\* of them; when none matches, the row of `create` is inserted
upsert(table, matching, updated, create) ==
  IF matching # {}
    THEN (table \ matching) \cup updated
    ELSE table \cup {create}

\* the warnings of lines 56-90
partialWarnings(e) ==
  LET hasPublicKey == isSet(e, PROJECT_PUBLIC_KEY)
      hasSecretKey == isSet(e, PROJECT_SECRET_KEY)
      hasEmail     == isSet(e, USER_EMAIL)
      hasPassword  == isSet(e, USER_PASSWORD)
  IN  (IF hasPublicKey # hasSecretKey
         THEN {[kind |-> "partialApiKey",
                names |-> {IF hasPublicKey THEN PROJECT_SECRET_KEY
                                           ELSE PROJECT_PUBLIC_KEY}]}
         ELSE {})
      \cup
      (IF (hasPublicKey \/ hasSecretKey) /\ ~isSet(e, PROJECT_ID)
         THEN {[kind |-> "apiKeysWithoutProject", names |-> {PROJECT_ID}]}
         ELSE {})
      \cup
      (IF hasEmail # hasPassword
         THEN {[kind |-> "partialUser",
                names |-> {IF hasEmail THEN USER_PASSWORD ELSE USER_EMAIL}]}
         ELSE {})

\* `existingApiKey && existingApiKey.projectId !== PROJECT_ID`
projectChangedNever(existing, projectId) == FALSE
projectChanged(existing, projectId) ==
  \E k \in existing : k.projectId # projectId

\* `if (!userId)`
userMissingAlways(id) == TRUE
userMissing(id) == id = 0

\* where the module body goes next
userBranch(e) ==
  IF isSet(e, USER_EMAIL) /\ isSet(e, USER_PASSWORD)
    THEN "user.findUnique" ELSE "done"
afterOrganization(e) ==
  IF isSet(e, PROJECT_ID) THEN "project.upsert" ELSE userBranch(e)
afterProject(e) ==
  IF isSet(e, PROJECT_SECRET_KEY) /\ isSet(e, PROJECT_PUBLIC_KEY)
    THEN "apiKey.findUnique" ELSE userBranch(e)
afterFindApiKey(existing, e) ==
  IF projectChanged(existing, e[PROJECT_ID])
    THEN "apiKey.delete"
    ELSE IF existing = {} THEN "createAndAddApiKeysToDb" ELSE userBranch(e)

notProvision == <<schedVars, cycleVars, histVars, storeVars, latencyVars,
                  singletonVars, handlerVars, ingestVars>>

\* the process starts and the module body runs to its first await: the
\* warning of lines 10-38, then the call of organization.upsert
initialize ==
  /\ initPc = "idle"
  /\ runs < MaxRuns
  /\ before' = db
  /\ calls' = <<>>
  /\ IF initEnabled(env)
       THEN /\ initPc' = "organization.upsert"
            /\ warnings' = {}
       ELSE /\ initPc' = "done"
            /\ warnings' = IF setInitVars(env) # {}
                             THEN {[kind |-> "ignored",
                                    names |-> setInitVars(env)]}
                             ELSE {}
  /\ UNCHANGED <<env, db, org, existingApiKey, userId, runs, afterFirst>>
  /\ UNCHANGED notProvision

organizationUpsert ==
  /\ initPc = "organization.upsert"
  /\ db' = [db EXCEPT !.organization =
              upsert(@, {r \in @ : r.id = env[ORG_ID]},
                     {r \in @ : r.id = env[ORG_ID]},
                     [id |-> env[ORG_ID],
                      name |-> orDefault(env[ORG_NAME], "Provisioned Org"),
                      cloudConfig |-> env[ORG_CLOUD_PLAN]])]
  /\ org' = env[ORG_ID]
  /\ calls' = Append(calls, "organization.upsert")
  /\ warnings' = warnings \cup partialWarnings(env)
  /\ initPc' = afterOrganization(env)
  /\ UNCHANGED <<env, existingApiKey, userId, runs, before, afterFirst>>
  /\ UNCHANGED notProvision

projectUpsert ==
  /\ initPc = "project.upsert"
  /\ \E hasRetentionEntitlement \in BOOLEAN :
       LET retentionDays ==
             IF isSet(env, PROJECT_RETENTION) /\ hasRetentionEntitlement
               THEN env[PROJECT_RETENTION] ELSE ""
       IN  db' = [db EXCEPT !.project =
                    upsert(@, {r \in @ : r.id = env[PROJECT_ID]},
                           {r \in @ : r.id = env[PROJECT_ID]},
                           [id |-> env[PROJECT_ID],
                            name |-> orDefault(env[PROJECT_NAME],
                                               "Provisioned Project"),
                            orgId |-> org,
                            retentionDays |-> retentionDays])]
  /\ calls' = Append(calls, "project.upsert")
  /\ initPc' = afterProject(env)
  /\ UNCHANGED <<env, org, existingApiKey, userId, warnings, runs, before,
                 afterFirst>>
  /\ UNCHANGED notProvision

apiKeyFindUnique ==
  /\ initPc = "apiKey.findUnique"
  /\ LET existing == {k \in db.apiKey :
                        k.publicKey = env[PROJECT_PUBLIC_KEY]}
     IN  /\ existingApiKey' = existing
         /\ initPc' = afterFindApiKey(existing, env)
  /\ calls' = Append(calls, "apiKey.findUnique")
  /\ UNCHANGED <<env, db, org, userId, warnings, runs, before, afterFirst>>
  /\ UNCHANGED notProvision

apiKeyDelete ==
  /\ initPc = "apiKey.delete"
  /\ db' = [db EXCEPT !.apiKey =
              {k \in @ : k.publicKey # env[PROJECT_PUBLIC_KEY]}]
  /\ calls' = Append(calls, "apiKey.delete")
  /\ initPc' = "createAndAddApiKeysToDb"
  /\ UNCHANGED <<env, org, existingApiKey, userId, warnings, runs, before,
                 afterFirst>>
  /\ UNCHANGED notProvision

createAndAddApiKeysToDb ==
  /\ initPc = "createAndAddApiKeysToDb"
  /\ db' = [db EXCEPT !.apiKey =
              @ \cup {[publicKey |-> env[PROJECT_PUBLIC_KEY],
                       secretKey |-> env[PROJECT_SECRET_KEY],
                       projectId |-> env[PROJECT_ID],
                       note |-> "Provisioned API Key",
                       scope |-> "PROJECT"]}]
  /\ calls' = Append(calls, "createAndAddApiKeysToDb")
  /\ initPc' = userBranch(env)
  /\ UNCHANGED <<env, org, existingApiKey, userId, warnings, runs, before,
                 afterFirst>>
  /\ UNCHANGED notProvision

userFindUnique ==
  /\ initPc = "user.findUnique"
  /\ LET email == toLowerCase(env[USER_EMAIL])
         existingUser == {u \in db.user : u.email = email}
         id == IF existingUser = {} THEN 0
                                    ELSE (CHOOSE u \in existingUser : TRUE).id
     IN  /\ userId' = id
         /\ initPc' = IF userMissing(id) THEN "createUserEmailPassword"
                                         ELSE "organizationMembership.upsert"
  /\ calls' = Append(calls, "user.findUnique")
  /\ UNCHANGED <<env, db, org, existingApiKey, warnings, runs, before,
                 afterFirst>>
  /\ UNCHANGED notProvision

createUserEmailPassword ==
  /\ initPc = "createUserEmailPassword"
  /\ LET id == Cardinality(db.user) + 1
     IN  /\ db' = [db EXCEPT !.user =
                     @ \cup {[id |-> id,
                              email |-> toLowerCase(env[USER_EMAIL]),
                              name |-> orDefault(env[USER_NAME],
                                                 "Provisioned User"),
                              password |-> env[USER_PASSWORD]]}]
         /\ userId' = id
  /\ calls' = Append(calls, "createUserEmailPassword")
  /\ initPc' = "organizationMembership.upsert"
  /\ UNCHANGED <<env, org, existingApiKey, warnings, runs, before,
                 afterFirst>>
  /\ UNCHANGED notProvision

organizationMembershipUpsert ==
  /\ initPc = "organizationMembership.upsert"
  /\ db' = [db EXCEPT !.organizationMembership =
              upsert(@, {r \in @ : r.userId = userId /\ r.orgId = org},
                     {[r EXCEPT !.role = "OWNER"] :
                        r \in {n \in @ : n.userId = userId /\ n.orgId = org}},
                     [userId |-> userId, orgId |-> org, role |-> "OWNER"])]
  /\ calls' = Append(calls, "organizationMembership.upsert")
  /\ initPc' = "done"
  /\ UNCHANGED <<env, org, existingApiKey, userId, warnings, runs, before,
                 afterFirst>>
  /\ UNCHANGED notProvision

\* the module body has run to its end; the process may be started again
\* with the same environment
initialized ==
  /\ initPc = "done"
  /\ initPc' = "idle"
  /\ runs' = runs + 1
  /\ afterFirst' = IF runs = 0 THEN db ELSE afterFirst
  /\ org' = ""
  /\ existingApiKey' = {}
  /\ userId' = 0
  /\ UNCHANGED <<env, db, warnings, calls, before>>
  /\ UNCHANGED notProvision

ProvisionInit ==
  /\ RunnerIdle
  /\ store = NoStore
  /\ WorkersIdle
  /\ sent = FALSE
  /\ delayed = FALSE
  /\ OtherIdle
  /\ ProvisionLocalsIdle
  /\ env \in Envs
  /\ db \in Dbs
  /\ before = db

ProvisionNext ==
  \/ initialize
  \/ organizationUpsert
  \/ projectUpsert
  \/ apiKeyFindUnique
  \/ apiKeyDelete
  \/ createAndAddApiKeysToDb
  \/ userFindUnique
  \/ createUserEmailPassword
  \/ organizationMembershipUpsert
  \/ initialized

ProvisionSpec == ProvisionInit /\ [][ProvisionNext]_vars

\* ------------------------------------------------------------ Scheduler
PostedIds == [i \in 1..Len(posts) |-> posts[i].trace_id]
OkPosts   == Cardinality({i \in 1..Len(posts) : posts[i].outcome = "2xx"})
BadPosts  == Cardinality({i \in 1..Len(posts) : posts[i].outcome # "2xx"})
Begins    == started' > started

\* C1: at most one invocation of the cycle body is in flight at any moment,
\* and an invocation begins only when every earlier one has ended, also
\* when an invocation takes longer than the interval.
C1_NonOverlap ==
  /\ [](started <= finished + 1)
  /\ [][Begins => (pc = "idle" /\ started = finished)]_vars

\* an invocation that has been running for longer than the interval
C1_Witness ==
  /\ started = 1
  /\ running
  /\ executing
  /\ pc = "post"
  /\ elapsed > intervalMs

\* C2: while the runner is stopped no invocation begins; stop() leaves the
\* invocation in flight untouched, and that invocation still POSTs every
\* candidate that remained when stop() was called.
C2_GracefulStop ==
  /\ [][Begins => running]_vars
  /\ [][(running /\ ~running') => UNCHANGED <<cycleVars, executing>>]_vars
  /\ [](pc = "done" /\ stopEarly => PostedIds = traceIds)

\* a cycle ended after stop() was called with candidates still to notify
C2_Witness ==
  /\ pc = "done"
  /\ ~running
  /\ stopEarly
  /\ Len(posts) >= 2
  /\ PostedIds = traceIds

\* C3: an invocation that rejects is a completed cycle: the runner is no
\* longer executing and, unless stopped, the next tick is armed one
\* interval later; a running runner with no invocation in flight always has
\* a tick pending.
C3_ErrorContained ==
  /\ [](running /\ ~executing => timer # NoTimer)
  /\ [][(pc = "done" /\ execOutcome = "rejected" /\ pc' = "idle") =>
          (/\ ~executing'
           /\ lastExec' = "rejected"
           /\ running => timer' = intervalMs)]_vars

\* the invocation after a rejected one has begun, one interval after it
C3_Witness ==
  /\ lastExec = "rejected"
  /\ pc = "query"
  /\ started >= 2
  /\ ~beganFresh

\* C4: a tick that fires during an invocation is dropped and nothing is
\* queued for it: invocations started never exceed invocations ended plus
\* one, a dropped tick starts nothing and leaves no tick pending, and the
\* tick pending after an invocation is one interval after its end.
C4_SkippedNotQueued ==
  /\ [](started - finished = IF pc \in {"query", "post"} THEN 1 ELSE 0)
  /\ []((timer # NoTimer /\ ~executing /\ ~fresh) =>
          timer + sinceEnd = intervalMs)
  /\ [][(executing /\ ~tickDropped /\ tickDropped') =>
          (timer' = NoTimer /\ started' = started /\ UNCHANGED cycleVars)]_vars

\* a tick was dropped during the invocation that is still in flight
C4_Witness ==
  /\ tickDropped
  /\ running
  /\ executing
  /\ pc = "post"
  /\ started = finished + 1

\* C5: the first invocation after start() begins at the time of start();
\* every other invocation begins one interval after the previous one
\* settled.
C5_Timing ==
  [][Begins => IF fresh THEN sinceStart = 0
                        ELSE sinceEnd = intervalMs]_vars

\* the second invocation has begun one interval after the end of the first,
\* which took longer than the interval
C5_Witness ==
  /\ started = 2
  /\ pc = "query"
  /\ ~beganFresh
  /\ lastExec = "resolved"
  /\ lastSlow

\* -------------------------------------------------------------- Notifier
\* C6: processConcludedTraces POSTs every candidate exactly once, in one
\* pass: the POST awaited is for the idx-th candidate, the earlier ones are
\* settled whatever their outcome, and at the end of the cycle the POSTs are
\* the candidates.
C6_OneCallPerCandidate ==
  /\ pc = "post" => /\ idx \in 1..Len(traceIds)
                    /\ Len(posts) = idx - 1
                    /\ PostedIds = SubSeq(traceIds, 1, idx - 1)
  /\ pc = "done" => /\ Len(posts) = Len(traceIds)
                    /\ PostedIds = traceIds

\* three candidates, the second POST failed and the third was still sent
C6_Witness ==
  /\ pc = "done"
  /\ Len(traceIds) = 3
  /\ Len(posts) = 3
  /\ posts[2].outcome = "non2xx"

\* C7: the success counter is the number of POSTs that got a 2xx response,
\* and the failure counter the number of the others.
C7_CountsSuccesses ==
  pc \in {"post", "done"} =>
    (successCount = OkPosts /\ failureCount = BadPosts)

\* C8: for the empty candidate list processConcludedTraces returns 0, POSTs
\* nothing and logs nothing.
C8_EmptyNoEffect ==
  (pc = "done" /\ traceIds = <<>>) =>
    /\ posts = <<>>
    /\ result = 0
    /\ successCount = 0
    /\ failureCount = 0
    /\ \A i \in 1..Len(logs) :
         logs[i] \notin {"proc.processing", "proc.ok", "proc.fail",
                         "proc.summary", "notify.error"}

\* the query succeeded with no row
C8_Witness ==
  /\ pc = "done"
  /\ queryOutcome = "rows"
  /\ traceIds = <<>>
  /\ execOutcome = "resolved"

\* ---------------------------------------------------------- Detector
\* C9: a rejected query makes findConcludedTraces return the empty list with
\* one error log; the cycle ends in that step with no second query, no
\* POST, and checkAndProcessConcludedTraces returns 0.
C9_DetectionFailureAbsorbed ==
  /\ []((pc = "done" /\ queryOutcome = "reject") =>
          /\ traceIds = <<>>
          /\ Count(logs, "find.error") = 1
          /\ Count(logs, "check.error") = 0
          /\ posts = <<>>
          /\ checkOutcome = "returned"
          /\ result = 0)
  /\ [][(pc = "query" /\ queryOutcome' = "reject") => pc' = "done"]_vars

\* a cycle whose query rejected has ended
C9_Witness ==
  /\ pc = "done"
  /\ queryOutcome = "reject"
  /\ execOutcome = "resolved"

\* -------------------------------------------------------- Orchestrator
\* C10: checkAndProcessConcludedTraces always returns a number between 0
\* and the number of candidates; it returns 0 when an error left
\* processConcludedTraces (no summary was logged for a non-empty list), and
\* the success counter otherwise.
C10_NeverThrows ==
  pc = "done" =>
    /\ checkOutcome = "returned"
    /\ result \in 0..Len(traceIds)
    /\ result = IF Len(traceIds) > 0 /\ Count(logs, "proc.summary") = 0
                  THEN 0
                  ELSE successCount

\* an error left processConcludedTraces after two counted successes
C10_Witness ==
  /\ pc = "done"
  /\ Len(traceIds) = 2
  /\ successCount = 2
  /\ Count(logs, "proc.summary") = 0
  /\ Count(logs, "check.error") = 1
  /\ result = 0

\* C11: a cycle whose detection returned the empty list ends with
\* checkAndProcessConcludedTraces returning 0, one query and no POST sent,
\* no summary-counts log, and, when execute then resolves, the log
\* 'no traces to process' and not the 'processed N traces' log.
C11_EmptyDetection ==
  (pc = "done" /\ traceIds = <<>>) =>
    /\ checkOutcome = "returned"
    /\ result = 0
    /\ queries = 1
    /\ posts = <<>>
    /\ outbound = 0
    /\ Count(logs, "proc.summary") = 0
    /\ execOutcome = "resolved" =>
         /\ Count(logs, "run.none") = 1
         /\ Count(logs, "run.processed") = 0

\* a cycle with no candidate logged 'no traces to process'
C11_Witness ==
  /\ pc = "done"
  /\ traceIds = <<>>
  /\ posts = <<>>
  /\ logs[Len(logs)] = "run.none"

\* C12: a cycle whose detection returned a non-empty list L and in which
\* processConcludedTraces returned has sent one query and one POST per
\* element of L, in order, and checkAndProcessConcludedTraces returns the
\* success counter; when every POST got a 2xx answer that value is |L| and
\* one summary is logged with |L| succeeded and 0 failed.
C12_EndToEnd ==
  (pc = "done" /\ Len(traceIds) > 0 /\ Count(logs, "check.error") = 0) =>
    /\ queries = 1
    /\ PostedIds = traceIds
    /\ checkOutcome = "returned"
    /\ result = successCount
    /\ OkPosts = Len(traceIds) =>
         /\ result = Len(traceIds)
         /\ Count(logs, "proc.summary") = 1
         /\ successCount = Len(traceIds)
         /\ failureCount = 0

\* two candidates, both POSTs answered 2xx
C12_Witness ==
  /\ pc = "done"
  /\ Len(traceIds) = 2
  /\ OkPosts = 2
  /\ result = 2
  /\ execOutcome = "resolved"

\* C17: at most one outbound call of a cycle is in flight; while the query
\* is in flight no POST has been sent, and while the POST for candidate
\* idx is in flight the POSTs for the idx - 1 candidates before it have all
\* settled and none later has been sent.
C17_SequentialDispatch ==
  /\ outbound \in 0..1
  /\ pc = "query" => (outbound = 1 /\ posts = <<>> /\ idx = 0)
  /\ pc = "post" => (outbound = 1 /\ Len(posts) = idx - 1 /\ queries = 1)
  /\ pc \in {"idle", "done"} => outbound = 0

\* the second POST is in flight after the first one failed
C17_Witness ==
  /\ pc = "post"
  /\ idx = 2
  /\ Len(traceIds) = 3
  /\ posts[1].outcome = "transport"
  /\ outbound = 1

\* C19: no summary is logged while a POST is outstanding; once
\* processConcludedTraces has returned for k > 0 candidates the log holds
\* one summary, placed after the k per-candidate entries, the two counters
\* add up to k and the returned value is the success counter.
C19_SummaryLog ==
  /\ pc = "post" => Count(logs, "proc.summary") = 0
  /\ (pc = "done" /\ Len(traceIds) > 0 /\ Count(logs, "check.error") = 0) =>
       /\ Count(logs, "proc.summary") = 1
       /\ Count(logs, "proc.ok") + Count(logs, "proc.fail") = Len(traceIds)
       /\ \A i, j \in 1..Len(logs) :
            (logs[i] = "proc.summary" /\ logs[j] \in {"proc.ok", "proc.fail"})
              => j < i
       /\ successCount + failureCount = Len(traceIds)
       /\ result = successCount

\* the summary was logged after three attempts
C19_Witness ==
  /\ pc = "done"
  /\ Len(traceIds) = 3
  /\ Len(posts) = 3
  /\ Count(logs, "proc.summary") = 1

\* ------------------------------------------------- Detector's query
\* C13: a returned trace has no observation whose updated_at is within the
\* inactivity threshold.
C13_InactivityRule ==
  queryOutcome = "rows" =>
    \A i \in 1..Len(traceIds) :
      \A u \in store[traceIds[i]].updated_at : olderThanThreshold(u)

\* C14: a returned trace has a row in traces and at least one observation,
\* its own timestamp is older than the threshold and its metadata has no
\* key feature_id.
C14_NeverIneligible ==
  queryOutcome = "rows" =>
    \A i \in 1..Len(traceIds) :
      LET tr == store[traceIds[i]]
      IN  /\ tr.inTraces
          /\ tr.updated_at # {}
          /\ olderThanThreshold(tr.timestamp)
          /\ ~tr.feature_id

\* t1 is returned alone: t2 is marked and otherwise old enough, t3 has no
\* observation
C14_Witness ==
  /\ queryOutcome = "rows"
  /\ traceIds = <<"t1">>
  /\ store["t2"] = [inTraces |-> TRUE,
                    timestamp |-> INACTIVITY_THRESHOLD_SECONDS + 1,
                    feature_id |-> TRUE,
                    updated_at |-> {INACTIVITY_THRESHOLD_SECONDS + 1}]
  /\ store["t3"].inTraces
  /\ store["t3"].updated_at = {}
  /\ ~store["t3"].feature_id

\* an eligible trace: observed, old in every timestamp, and not marked
Eligible(st, t) ==
  /\ st[t].inTraces
  /\ st[t].updated_at # {}
  /\ \A u \in st[t].updated_at : olderThanThreshold(u)
  /\ olderThanThreshold(st[t].timestamp)
  /\ ~st[t].feature_id

\* C15: when the query succeeds and the eligible traces are at most
\* BatchCap, every eligible trace is returned.
C15_Complete ==
  (/\ queryOutcome = "rows"
   /\ Cardinality({t \in TraceIds : Eligible(store, t)}) <= BatchCap) =>
    \A t \in TraceIds :
      Eligible(store, t) => \E i \in 1..Len(traceIds) : traceIds[i] = t

FleetPosted(k) ==
  [i \in 1..Len(fleet[k].posts) |-> fleet[k].posts[i].trace_id]

FleetPostedSet(k) == {FleetPosted(k)[i] : i \in 1..Len(fleet[k].posts)}

\* C18 as stated: no id gets two POSTs in one cycle, and every id whose
\* POST failed in a worker's previous cycle and that had neither a marker
\* nor a new observation when the next cycle's query ran gets a POST in
\* that next cycle.
C18_RetriedNextCycle ==
  \A k \in Workers :
    /\ Injective(FleetPosted(k))
    /\ fleet[k].pc = "done" => due[k] \subseteq FleetPostedSet(k)

\* C18 amended: the same, for a next cycle whose query succeeds and
\* selects at most BatchCap ids.
C18_RetriedUnlessCutOrRejected ==
  \A k \in Workers :
    /\ Injective(FleetPosted(k))
    /\ (/\ fleet[k].pc = "done"
        /\ fleet[k].queryOutcome = "rows"
        /\ ~overflow[k]) => due[k] \subseteq FleetPostedSet(k)

\* t2, whose POST failed in w1's previous cycle, got a new POST from w1
C18_Witness ==
  /\ fleet["w1"].pc = "done"
  /\ fleet["w1"].queryOutcome = "rows"
  /\ ~overflow["w1"]
  /\ due["w1"] = {"t2"}
  /\ "t2" \in FleetPostedSet("w1")

\* C20: whatever the other worker does, a worker's cycle ends with
\* checkAndProcessConcludedTraces returning its success counter, after one
\* POST for each id its own query returned and with counters that add up
\* to that number.
C20_DuplicatesTolerated ==
  \A k \in Workers :
    fleet[k].pc = "done" =>
      /\ fleet[k].checkOutcome = "returned"
      /\ FleetPosted(k) = fleet[k].traceIds
      /\ fleet[k].successCount + fleet[k].failureCount = Len(fleet[k].traceIds)
      /\ fleet[k].result = fleet[k].successCount

\* w2 ends a cycle in which it sent a POST for t1 while w1, in a cycle of
\* its own, has sent one for t1 too
C20_Witness ==
  /\ fleet["w2"].pc = "done"
  /\ "t1" \in FleetPostedSet("w2")
  /\ "t1" \in FleetPostedSet("w1")

C24_CycleStateMachine ==
  [][/\ pc' # pc =>
          \/ pc = "idle" /\ pc' = "query"
          \/ pc = "query" /\ pc' = "post"
          \/ pc = "query" /\ pc' = "done"
          \/ pc = "post" /\ pc' = "done"
          \/ pc = "done" /\ pc' = "idle"
     /\ (pc = "query" /\ pc' = "post") =>
          (queryOutcome' = "rows" /\ Len(traceIds') > 0)
     /\ (pc = "query" /\ pc' = "done") => (traceIds' = <<>> /\ posts' = <<>>)
     /\ (pc = "idle" /\ pc' = "query") =>
          /\ IdleCycle
          /\ queryOutcome' = "none"
          /\ traceIds' = <<>>
          /\ idx' = 0
          /\ successCount' = 0
          /\ failureCount' = 0
          /\ posts' = <<>>
          /\ result' = NoResult
     /\ pc' = "idle" => IdleCycle']_vars

\* the second cycle is notifying after the first one counted a POST
C24_Witness ==
  /\ started = 2
  /\ finished = 1
  /\ pc = "post"
  /\ idx = 2
  /\ successCount = 1

\* ------------------------------------------------------ frame of the core
\* C25: no step changes a trace's row in traces other than by setting
\* feature_id, and feature_id is set only in the step in which a worker's
\* POST for that trace is answered 2xx; a step in which a worker begins a
\* cycle, gets its query answered, gets a failed POST answered or ends
\* its cycle leaves both tables as they are; observations change only
\* when the ingestion path writes one.
C25_CoreNeverWrites ==
  [][/\ \A t \in TraceIds :
          /\ store'[t].inTraces = store[t].inTraces
          /\ store'[t].timestamp = store[t].timestamp
          /\ store'[t].feature_id # store[t].feature_id =>
               \E k \in Workers :
                 /\ fleet[k].pc = "post"
                 /\ fleet[k].traceIds[fleet[k].idx] = t
                 /\ Len(fleet'[k].posts) = Len(fleet[k].posts) + 1
                 /\ fleet'[k].posts[Len(fleet'[k].posts)].outcome = "2xx"
                 /\ store'[t].feature_id
          /\ store'[t].updated_at # store[t].updated_at =>
               (activity' = activity + 1 /\ fleet' = fleet)
     /\ (/\ fleet' # fleet
         /\ \A k \in Workers :
              \/ Len(fleet'[k].posts) <= Len(fleet[k].posts)
              \/ fleet'[k].posts[Len(fleet'[k].posts)].outcome # "2xx") =>
          store' = store]_vars

\* w1's query returned t1 and t2, its POST for t1 failed, and t1 is still
\* unmarked
C25_Witness ==
  /\ fleet["w1"].pc = "post"
  /\ fleet["w1"].traceIds = <<"t1", "t2">>
  /\ fleet["w1"].idx = 2
  /\ fleet["w1"].posts[1].outcome = "transport"
  /\ ~store["t1"].feature_id
  /\ ~store["t2"].feature_id

\* ----------------------------------------------------- query text
\* the values the field INACTIVITY_THRESHOLD_SECONDS is tried with
Thresholds == {1, 30, 60, 61, 120}

\* C22: for every value of the threshold field the query text has that
\* value in the updated_at window and in the timestamp window, and 1000
\* as its LIMIT; with the field at 60 both windows are 60 seconds, and
\* every returned trace has a timestamp and an observation older than 60
\* seconds.
C22_QueryUsesThresholdAndCap ==
  /\ \A T \in Thresholds :
       /\ queryText(T).updated_at_interval = T
       /\ queryText(T).timestamp_interval = T
       /\ queryText(T).limit = 1000
  /\ query.updated_at_interval = INACTIVITY_THRESHOLD_SECONDS
  /\ query.timestamp_interval = INACTIVITY_THRESHOLD_SECONDS
  /\ queryOutcome = "rows" =>
       \A i \in 1..Len(traceIds) :
         /\ store[traceIds[i]].timestamp > INACTIVITY_THRESHOLD_SECONDS
         /\ \E u \in store[traceIds[i]].updated_at :
              u > INACTIVITY_THRESHOLD_SECONDS

\* t1 is returned, and t2 is not: its timestamp is exactly 60 seconds old
C22_Witness ==
  /\ queryOutcome = "rows"
  /\ traceIds = <<"t1">>
  /\ store["t2"] = [inTraces |-> TRUE,
                    timestamp |-> INACTIVITY_THRESHOLD_SECONDS,
                    feature_id |-> FALSE,
                    updated_at |-> {INACTIVITY_THRESHOLD_SECONDS + 1}]
  /\ store["t3"] = [inTraces |-> TRUE,
                    timestamp |-> INACTIVITY_THRESHOLD_SECONDS + 1,
                    feature_id |-> FALSE,
                    updated_at |-> {INACTIVITY_THRESHOLD_SECONDS}]

C26_LazySingleton ==
  /\ getInstanceCalls <= 1
  /\ getInstanceCalls = (IF returned = <<>> THEN 0 ELSE 1)
  /\ \A i \in 1..Len(returned) :
       /\ returned[i].client = returned[1].client
       /\ returned[i].client = s3StorageServiceClient
       /\ returned[i].client # NoClient

\* three calls from three callers were answered
C26_Witness ==
  /\ Len(returned) >= 3
  /\ Cardinality({returned[i].caller : i \in 1..Len(returned)}) = 3
  /\ getInstanceCalls = 1

\* C23: however the invocations of the /api/features/analyze handler for
\* one trace interleave, the trace is processed at most once.
C23_ProcessedAtMostOnce ==
  \A t \in Analyzed : processed[t] <= 1

\* what the claims about initialize.ts speak of
Has(name) == \E i \in 1..Len(calls) : calls[i] = name
AllSet(names) == \A v \in names : isSet(env, v)
KeysOf(d) == {k \in d.apiKey : k.publicKey = env[PROJECT_PUBLIC_KEY]}
ProvisionedKey ==
  [publicKey |-> env[PROJECT_PUBLIC_KEY],
   secretKey |-> env[PROJECT_SECRET_KEY],
   projectId |-> env[PROJECT_ID],
   note |-> "Provisioned API Key", scope |-> "PROJECT"]
Writes == {"apiKey.delete", "createAndAddApiKeysToDb",
           "createUserEmailPassword"}

\* C27: with ELASTICDASH_INIT_ORG_ID unset, whatever other variables are
\* set, a run makes no database call and leaves every table as it was; all
\* it does is log one warning that names the variables that are set, and
\* nothing when none is.
C27_GatedOnOrgId ==
  ~isSet(env, ORG_ID) =>
    /\ db = before
    /\ calls = <<>>
    /\ initPc \in {"idle", "done"}
    /\ (initPc = "done" \/ runs > 0) =>
         warnings = IF \E v \in IgnoredVars : env[v] # ""
                      THEN {[kind |-> "ignored",
                             names |-> {v \in IgnoredVars : env[v] # ""}]}
                      ELSE {}

\* a run has ended with every other variable set and the org id missing,
\* on a database that holds rows
C27_Witness ==
  /\ ~isSet(env, ORG_ID)
  /\ AllSet(IgnoredVars)
  /\ initPc = "done"
  /\ warnings # {}
  /\ db.apiKey # {}
  /\ db.user # {}

\* C28: when a run with the org id, the project id and both keys set has
\* ended, exactly one API key has the configured public key and it belongs
\* to the configured project; a key that was bound to another project has
\* been deleted and created anew, and a key that was bound to the
\* configured project is the row it was.
C28_ApiKeyOwnership ==
  (/\ initPc = "done"
   /\ AllSet({ORG_ID, PROJECT_ID, PROJECT_PUBLIC_KEY, PROJECT_SECRET_KEY}))
  =>
    /\ Cardinality(KeysOf(db)) = 1
    /\ \A k \in KeysOf(db) : k.projectId = env[PROJECT_ID]
    /\ (\E k \in KeysOf(before) : k.projectId # env[PROJECT_ID]) =>
         /\ KeysOf(db) = {ProvisionedKey}
         /\ \E i, j \in 1..Len(calls) :
              /\ i < j
              /\ calls[i] = "apiKey.delete"
              /\ calls[j] = "createAndAddApiKeysToDb"
    /\ (\E k \in KeysOf(before) : k.projectId = env[PROJECT_ID]) =>
         /\ KeysOf(db) = KeysOf(before)
         /\ ~Has("apiKey.delete")
         /\ ~Has("createAndAddApiKeysToDb")

\* a run has ended that found the key bound to another project
C28_Witness ==
  /\ initPc = "done"
  /\ AllSet({ORG_ID, PROJECT_ID, PROJECT_PUBLIC_KEY, PROJECT_SECRET_KEY})
  /\ KeysOf(before) = {OldKey("p2")}
  /\ KeysOf(db) = {ProvisionedKey}
  /\ Has("apiKey.delete")

\* C29: a run after the first, with the same environment, leaves the
\* database as the first run left it: it creates and deletes nothing; no
\* run overwrites an organization or a project that existed; and a run
\* with the org id, the email and the password set ends with one user of
\* that address, who is OWNER of the organization.
C29_Idempotent ==
  /\ runs >= 1 => db = afterFirst
  /\ (runs >= 1 /\ initPc # "idle") => \A w \in Writes : ~Has(w)
  /\ before.organization \subseteq db.organization
  /\ before.project \subseteq db.project
  /\ (initPc = "done" /\ AllSet({ORG_ID, USER_EMAIL, USER_PASSWORD})) =>
       LET users == {u \in db.user : u.email = toLowerCase(env[USER_EMAIL])}
       IN  /\ Cardinality(users) = 1
           /\ \A u \in users :
                {m.role : m \in {n \in db.organizationMembership :
                                   n.orgId = env[ORG_ID] /\ n.userId = u.id}}
                = {"OWNER"}

\* the second run has ended, after a first run that created the
\* organization, the project, the key, the user and the membership
C29_Witness ==
  /\ runs = 2
  /\ AllSet(Branching)
  /\ ProvisionedKey \in db.apiKey
  /\ \E o \in db.organization : o.id = env[ORG_ID] /\ o.name # "Old Org"
  /\ \E p \in db.project : p.id = env[PROJECT_ID] /\ p.name # "Old Project"
  /\ \E u \in db.user : u.password = env[USER_PASSWORD]
  /\ Has("organizationMembership.upsert")

\* C35: the client a call of getMediaStorageServiceClient(bucketName)
\* returns was constructed for that bucketName.
C35_ClientForBucket ==
  \A i \in 1..Len(returned) :
     returned[i].client.bucketName = returned[i].bucketName

\* C33: the i-th POST of a cycle is for the i-th candidate of the list
\* the query returned, whatever the outcomes of the POSTs before it; while
\* the POST for candidate idx is awaited exactly the idx - 1 before it have
\* been made, and when the loop has ended every position has been called.
C33_NotificationOrder ==
  /\ Len(posts) <= Len(traceIds)
  /\ \A i \in 1..Len(posts) : posts[i].trace_id = traceIds[i]
  /\ pc = "post" => Len(posts) = idx - 1
  /\ pc = "done" => Len(posts) = Len(traceIds)

\* a cycle over three different candidates has ended, the first two POSTs
\* having failed
C33_Witness ==
  /\ pc = "done"
  /\ Len(traceIds) = 3
  /\ Cardinality({traceIds[i] : i \in 1..3}) = 3
  /\ Len(posts) = 3
  /\ posts[1].outcome = "transport"
  /\ posts[2].outcome = "non2xx"
  /\ posts[3].outcome = "2xx"

\* ------------------------------------------------ stale notifications
\* in this step worker k sends a POST: the first of its list as its query
\* returns, or the next one as the POST before it settles
Issues(k) ==
  /\ fleet'[k].pc = "post"
  /\ fleet[k].pc = "post" => fleet'[k].idx # fleet[k].idx

Issued(k) == fleet'[k].traceIds[fleet'[k].idx]

\* the trace of the POST that k sends in this step has the marker, or got
\* an observation after k's query returned
Stale(k) ==
  \/ store'[Issued(k)].feature_id
  \/ Issued(k) \in touched[k]

C34_TerminationAndProgress ==
  /\ [](queries + Len(posts) <= 1 + MaxRows)
  /\ executing ~> ~executing
  /\ \A n \in 0..(MaxCycles - 1) :
       (running /\ started = n) ~> (~running \/ started > n)

\* a second cycle has begun after one whose execute() rejected
C34_Witness ==
  /\ started = 2
  /\ pc = "query"
  /\ running
  /\ lastExec = "rejected"

\* ------------------------------------------------------- starvation
\* C31 as stated: every trace that is eligible and stays silent gets the
\* marker in the end.
C31_NoStarvation ==
  \A t \in TraceIds : (~store[t].feature_id) ~> store[t].feature_id

\* C31 amended: once no further trace becomes eligible, every trace that
\* is eligible and stays silent gets the marker in the end.
C31_NoStarvationOnceClosed ==
  \A t \in TraceIds :
     (closed /\ ~store[t].feature_id) ~> store[t].feature_id

\* no further trace will become eligible, more traces are eligible than
\* the cap, and the worker awaits the first POST of a full list that
\* leaves t1 out
C31_Witness ==
  /\ closed
  /\ \A t \in TraceIds : ~store[t].feature_id
  /\ Cardinality(TraceIds) > BatchCap
  /\ pc = "post"
  /\ idx = 1
  /\ Len(traceIds) = BatchCap
  /\ \A i \in 1..Len(traceIds) : traceIds[i] # "t1"

====
